---- MODULE Spec2Model ----
(***************************************************************************)
(* A model of http-trace's request tracer (trace/trace.go): the Trace      *)
(* object, its SetHeaders and Execute methods, the ten httptrace hooks      *)
(* Execute installs, and the accessors.                                     *)
(*                                                                          *)
(* Time is counted in ticks of the elapsed-time clock timeSinceStart().     *)
(* Every call of timeSinceStart() is a read of the clock; the clock never   *)
(* goes back.  A read that follows the previous one without any blocking    *)
(* operation in between advances by at most Resolution ticks, a read that   *)
(* follows network I/O advances by 0 or by Wait ticks.                      *)
(*                                                                          *)
(* The order in which the hooks fire is that of Go's net/http transport:    *)
(* GetConn, then either GotConn(Reused) or the dial sequence DNSStart,       *)
(* DNSDone, ConnectStart, ConnectDone, (TLSHandshakeStart,                   *)
(* TLSHandshakeDone for https) and GotConn; after GotConn the write loop     *)
(* fires WroteRequest and the read loop fires GotFirstResponseByte, each in  *)
(* a goroutine of its own, so that the statements of the two hooks           *)
(* interleave.  http.Client follows redirects inside one client.Do, and      *)
(* every round trip fires the hooks again.  httptrace.WithClientTrace        *)
(* composes the new hooks with the hooks already in the request's context:   *)
(* the new closure runs first, then the older ones.                          *)
(***************************************************************************)
EXTENDS Integers, Sequences, FiniteSets, TLC

\* ---- bounds of the model ----
\* Ticks by which two clock reads with no blocking operation in between may differ.
Resolution == 1
\* Clock reads of one Execute at which the clock is seen to advance without I/O.
MaxTicks == 1
\* Ticks a long network wait takes (a short one takes none).
Wait == 10
\* The client's timeout, in ticks.
Timeout == 25
\* Round trips (the first request and the redirects) of one client.Do.
MaxRoundTrips == 2
\* Entries of one call of SetHeaders.
MaxEntries == 2

Schemes == {"http", "https"}
Statuses == {200, 404}
Causes == {"timeout", "reset"}
Nil == "nil"
\* Texts are sequences of pieces: the empty string is <<>>.
EmptyString == <<>>
BodyText == <<"<html>">>
\* A nil *http.Response is <<>>, a response is <<status>>; what Execute returns is <<>>
\* for nil and the error's text otherwise; a Trace that was never executed has ret = Nil.
NoResponse == <<>>
NoError == <<>>

\* ---- type Timings (trace.go:14-31) ----
Markers == {"getConnStart", "connectStart", "dnsStart", "tlsStart",
            "requestStart", "delayStart", "responseStart"}
Exposed == {"DNSDuration", "ConnectionDialDuration", "TLSDuration",
            "TotalConnectionDuration", "RequestWriteDuration",
            "ResponseDelayDuration", "ResponseReadDuration",
            "TotalRequestDuration"}
Fields == Markers \cup Exposed

\* timings := &Timings{} in New: every field has Go's zero value.
ZeroTimings == [f \in Fields |-> 0]

VARIABLES
  state,            \* lifecycle of the Trace: Created, Executing, Completed, Failed, Panicked
  pc,               \* where Execute stands: idle, do (inside client.Do), body (reading the body)
  header,           \* t.request.Header: canonical key -> sequence of values
  url,              \* scheme of t.request.URL
  hooks,            \* the ClientTraces in the request's context, newest first: for each the
                    \* ticks its startTime lies before the current Execute's startTime
  timings,          \* *t.timings
  response,         \* t.response
  responseBody,     \* t.responseBody
  stderr,           \* what was written to os.Stderr
  ret,              \* what the last call of Execute returned
  now,              \* the last reading of timeSinceStart() of the current Execute
  requestStartTime, \* Execute's local requestStartTime
  resp,             \* Execute's local resp
  trips,            \* round trips the current client.Do has started
  ticks,            \* reads of the current Execute at which the clock advanced without I/O
  hop,              \* scheme of the current round trip
  conn,             \* how far the current round trip's connection is
  pool,             \* schemes the client's transport holds an idle connection for
  wr,               \* statements of WroteRequest run in the current round trip
  rd,               \* statements of GotFirstResponseByte run in the current round trip
  lastReused,       \* connInfo.Reused of the last GotConn of the current Execute
  nwrites,          \* writes of each exposed field during the current Execute
  elapsed,          \* where the client's timeout elapsed in the current Execute
  bodyErr,          \* the error ioutil.ReadAll returned in the current Execute, Nil for none
  lastSet,          \* the last call of SetHeaders: <<raw, the header before the call>>
  data,             \* the Report's data (report.go:58-64)
  output,           \* the Report's output
  built,            \* what the last Build returned: "no" before any, "ok" for nil, "error"
  stdout            \* what Print has written to its writer

traceVars == <<state, pc, header, url, hooks, timings, response, responseBody, stderr, ret,
               now, requestStartTime, resp, trips, ticks, hop, conn, pool, wr, rd,
               lastReused, nwrites, elapsed, bodyErr, lastSet>>

repVars == <<data, output, built, stdout>>

vars == <<traceVars, repVars>>

reqVars == <<header, url, lastSet>>
outVars == <<response, responseBody, stderr, ret>>

Gap == {0, Resolution}
IO == {0, Wait}

Max(a, b) == IF a >= b THEN a ELSE b

\* ---- the hooks' bodies (trace.go:67-103); c is what timeSinceStart() returns ----
GetConnHook(tm, c) == [tm EXCEPT !.getConnStart = c]

GotConnHook(tm, reused, c1, c2) ==
  LET a == IF ~reused
           THEN [tm EXCEPT !.TotalConnectionDuration = c1 - tm.getConnStart]
           ELSE tm
  IN [a EXCEPT !.requestStart = c2]

DNSStartHook(tm, c) == [tm EXCEPT !.dnsStart = c]

\* DNSDone writing the connection total as well.
DNSDoneHookWide(tm, c) ==
  [tm EXCEPT !.DNSDuration = c - tm.dnsStart, !.TotalConnectionDuration = c - tm.dnsStart]

DNSDoneHook(tm, c) == [tm EXCEPT !.DNSDuration = c - tm.dnsStart]

ConnectStartHook(tm, c) == [tm EXCEPT !.connectStart = c]

ConnectDoneHook(tm, c) == [tm EXCEPT !.ConnectionDialDuration = c - tm.connectStart]

TLSHandshakeStartHook(tm, c) == [tm EXCEPT !.tlsStart = c]

TLSHandshakeDoneHook(tm, c) == [tm EXCEPT !.TLSDuration = c - tm.tlsStart]

\* s = 1: the hook's first statement, s = 2: its second.
WroteRequestHook(tm, s, c) ==
  IF s = 1 THEN [tm EXCEPT !.RequestWriteDuration = c - tm.requestStart]
           ELSE [tm EXCEPT !.delayStart = c]

GotFirstResponseByteHook(tm, s, c) ==
  IF s = 1 THEN [tm EXCEPT !.ResponseDelayDuration = c - tm.delayStart]
           ELSE [tm EXCEPT !.responseStart = c]

\* One hook with one clock read, called for every ClientTrace of the context.
Call1(h, tm, c) ==
  CASE h = "GetConn" -> GetConnHook(tm, c)
    [] h = "DNSStart" -> DNSStartHook(tm, c)
    [] h = "DNSDone" -> DNSDoneHook(tm, c)
    [] h = "ConnectStart" -> ConnectStartHook(tm, c)
    [] h = "ConnectDone" -> ConnectDoneHook(tm, c)
    [] h = "TLSHandshakeStart" -> TLSHandshakeStartHook(tm, c)
    [] h = "TLSHandshakeDone" -> TLSHandshakeDoneHook(tm, c)

\* The reading of the j-th read of a hook invocation whose first read is r1 and whose
\* later reads advance by g[2], g[3], ...
RECURSIVE Reading(_, _, _)
Reading(r1, g, j) == IF j = 1 THEN r1 ELSE Reading(r1, g, j - 1) + g[j]

\* httptrace's composition: closure 1 (the newest) first, then the older ones; closure j
\* sees the clock of its own startTime, hooks[j] ticks ahead of the current one.
RECURSIVE Compose1(_, _, _, _, _)
Compose1(h, tm, r1, g, j) ==
  IF j > Len(hooks) THEN tm
  ELSE Compose1(h, Call1(h, tm, Reading(r1, g, j) + hooks[j]), r1, g, j + 1)

RECURSIVE ComposeGotConn(_, _, _, _, _)
ComposeGotConn(tm, reused, r1, g, j) ==
  IF j > Len(hooks) THEN tm
  ELSE ComposeGotConn(GotConnHook(tm, reused,
                                  Reading(r1, g, 2 * j - 1) + hooks[j],
                                  Reading(r1, g, 2 * j) + hooks[j]),
                      reused, r1, g, j + 1)

Count(nw, fs) == [f \in Exposed |-> IF f \in fs THEN nw[f] + 1 ELSE nw[f]]

\* The reads of g that advance the clock.
Ticked(g) == Cardinality({j \in DOMAIN g : g[j] > 0})

Init ==
  /\ state = "Created"
  /\ pc = "idle"
  /\ header = <<>>
  /\ url \in Schemes
  /\ hooks = <<>>
  /\ timings = ZeroTimings
  /\ response = NoResponse
  /\ responseBody = EmptyString
  /\ stderr = <<>>
  /\ ret = <<Nil>>
  /\ now = 0
  /\ requestStartTime = 0
  /\ resp = NoResponse
  /\ trips = 0
  /\ ticks = 0
  /\ hop = url
  /\ conn = "none"
  /\ pool = {}
  /\ wr = 0
  /\ rd = 0
  /\ lastReused = "none"
  /\ nwrites = [f \in Exposed |-> 0]
  /\ elapsed = "none"
  /\ bodyErr = Nil
  /\ lastSet = <<>>
  /\ data = Nil
  /\ output = EmptyString
  /\ built = "no"
  /\ stdout = <<>>

\* ---- SetHeaders (trace.go:50-57); a string is the sequence of its characters ----
IsSpace(c) == c = " "

\* strings.Index(s, c), counted from 1; 0 when c does not occur.
RECURSIVE IndexFrom(_, _, _)
IndexFrom(s, c, i) ==
  IF i > Len(s) THEN 0 ELSE IF s[i] = c THEN i ELSE IndexFrom(s, c, i + 1)

\* strings.SplitN(s, ":", 2)
SplitN2(s) ==
  LET i == IndexFrom(s, ":", 1)
  IN IF i = 0 THEN <<s>> ELSE <<SubSeq(s, 1, i - 1), SubSeq(s, i + 1, Len(s))>>

RECURSIVE TrimLeft(_)
TrimLeft(s) == IF s # <<>> /\ IsSpace(Head(s)) THEN TrimLeft(Tail(s)) ELSE s

RECURSIVE TrimRight(_)
TrimRight(s) ==
  IF s # <<>> /\ IsSpace(s[Len(s)]) THEN TrimRight(SubSeq(s, 1, Len(s) - 1)) ELSE s

\* strings.TrimSpace
TrimSpace(s) == TrimRight(TrimLeft(s))

LowerCase == {"a", "b", "x", "y"}
UpperCase == {"A", "B", "X", "Y"}
ToUpper(c) == CASE c = "a" -> "A" [] c = "b" -> "B" [] c = "x" -> "X" [] c = "y" -> "Y"
                [] OTHER -> c
ToLower(c) == CASE c = "A" -> "a" [] c = "B" -> "b" [] c = "X" -> "x" [] c = "Y" -> "y"
                [] OTHER -> c

\* textproto's validHeaderFieldByte: letters and "-" among the characters of the model.
ValidHeaderFieldByte(c) == c \in LowerCase \cup UpperCase \cup {"-"}

RECURSIVE Canonical(_, _)
Canonical(s, upper) ==
  IF s = <<>> THEN <<>>
  ELSE LET c == IF upper THEN ToUpper(Head(s)) ELSE ToLower(Head(s))
       IN <<c>> \o Canonical(Tail(s), c = "-")

\* textproto.CanonicalMIMEHeaderKey, which http.Header.Set and Get apply to the key: a
\* key with a byte that is no header field byte is left as it is.
CanonicalMIMEHeaderKey(s) ==
  IF \E i \in 1 .. Len(s) : ~ValidHeaderFieldByte(s[i]) THEN s ELSE Canonical(s, TRUE)

\* http.Header.Add in place of Set: the value joins the ones the key has.
HeaderAdd(h, key, value) ==
  LET k == CanonicalMIMEHeaderKey(key)
  IN [x \in DOMAIN h \cup {k} |->
        IF x = k THEN (IF k \in DOMAIN h THEN h[k] ELSE <<>>) \o <<value>> ELSE h[x]]

\* A Set that makes the header anew: the key is all the header holds afterwards.
HeaderReplace(h, key, value) ==
  [x \in {CanonicalMIMEHeaderKey(key)} |-> <<value>>]

\* http.Header.Set(key, value)
HeaderSet(h, key, value) ==
  LET k == CanonicalMIMEHeaderKey(key)
  IN [x \in DOMAIN h \cup {k} |-> IF x = k THEN <<value>> ELSE h[x]]

\* http.Header.Get(key): the first value of the key, the empty string when there is none.
HeaderGet(h, key) ==
  LET k == CanonicalMIMEHeaderKey(key)
  IN IF k \in DOMAIN h /\ h[k] # <<>> THEN h[k][1] ELSE EmptyString

\* One pass of the loop's body (trace.go:52-55): the header after it, and whether split[1]
\* was an index out of range.
SetOne(h, full) ==
  LET split == SplitN2(full)
  IN IF Len(split) < 2
     THEN [header |-> h, panic |-> TRUE]
     ELSE [header |-> HeaderSet(h, TrimSpace(split[1]), TrimSpace(split[2])),
           panic |-> FALSE]

\* The loop (trace.go:51-56) from entry i on.
RECURSIVE SetFrom(_, _, _)
SetFrom(h, raw, i) ==
  IF i > Len(raw) THEN [header |-> h, panic |-> FALSE]
  ELSE LET r == SetOne(h, raw[i])
       IN IF r.panic THEN r ELSE SetFrom(r.header, raw, i + 1)

\* A panic that nothing recovers ends the program.
SetHeaders(raw) ==
  /\ pc = "idle"
  /\ state # "Panicked"
  /\ LET r == SetFrom(header, raw, 1)
     IN /\ header' = r.header
        /\ state' = IF r.panic THEN "Panicked" ELSE state
  /\ lastSet' = <<raw, header>>
  /\ UNCHANGED <<repVars, pc, url, hooks, timings, outVars, now, requestStartTime, resp, trips, ticks,
                 hop, conn, pool, wr, rd, lastReused, nwrites, elapsed, bodyErr>>

\* The entries SetHeaders is called with: "X:a", " X : a ", "x:b", "X-y:a:b", "Y:", "x y:a",
\* and two without a colon, "Xa" and "".
Entries ==
  { <<"X", ":", "a">>,
    <<" ", "X", " ", ":", " ", "a", " ">>,
    <<"x", ":", "b">>,
    <<"X", "-", "y", ":", "a", ":", "b">>,
    <<"Y", ":">>,
    <<"x", " ", "y", ":", "a">>,
    <<"X", "a">>,
    <<>> }

RawInputs == UNION {[1 .. n -> Entries] : n \in 0 .. MaxEntries}

\* The headers a request may carry when the Trace is made.
InitialHeaders ==
  { <<>>,
    [k \in {<<"X">>} |-> <<<<"o">>>>],
    [k \in {<<"X">>} |-> <<<<"o">>, <<"p">>>>] }

\* The Traces whose second Execute the model follows: those whose first Execute completed
\* with status 200 and the body read, after one plaintext round trip with its request
\* written and its first byte received, in which the clock advanced at the connect alone.
Followed ==
  /\ Len(hooks) = 1
  /\ url = "http"
  /\ trips = 1
  /\ wr = 2
  /\ rd = 2
  /\ ticks = 0
  /\ now = Wait
  /\ timings.ConnectionDialDuration = Wait
  /\ timings.RequestWriteDuration = 0
  /\ timings.ResponseDelayDuration = 0
  /\ response = <<200>>
  /\ responseBody = BodyText

\* Execute up to the call of client.Do (trace.go:59-106).  Nothing keeps a Trace that has
\* executed from executing again; the hooks of the earlier calls stay in the context of
\* t.request, which line 105 replaces.
ExecuteStart ==
  /\ pc = "idle"
  /\ \/ state = "Created"
     \/ state = "Completed" /\ Followed
  /\ \E d \in Gap :
       /\ now' = d
       /\ requestStartTime' = d
       /\ ticks' = IF d > 0 THEN 1 ELSE 0
       /\ hooks' = <<0>> \o [j \in 1 .. Len(hooks) |-> hooks[j] + now]
  /\ state' = "Executing"
  /\ pc' = "do"
  /\ trips' = 1
  /\ hop' = url
  /\ conn' = "none"
  /\ wr' = 0
  /\ rd' = 0
  /\ resp' = NoResponse
  /\ lastReused' = "none"
  /\ nwrites' = [f \in Exposed |-> 0]
  /\ elapsed' = "none"
  /\ bodyErr' = Nil
  /\ UNCHANGED <<repVars, reqVars, outVars, timings, pool>>

\* A hook of the connection sequence with one clock read; w is what the read may advance by.
Fire1(h, from, to, w, fs) ==
  /\ pc = "do"
  /\ conn = from
  /\ \E d \in w, g \in [1 .. Len(hooks) -> Gap] :
       /\ g[1] = 0
       /\ w = IO => now + d <= Timeout
       /\ ticks' = ticks + Ticked(g) + (IF w = Gap /\ d > 0 THEN 1 ELSE 0)
       /\ ticks' <= MaxTicks
       /\ timings' = Compose1(h, timings, now + d, g, 1)
       /\ now' = Reading(now + d, g, Len(hooks))
  /\ conn' = to
  /\ nwrites' = Count(nwrites, fs)
  /\ UNCHANGED <<repVars, state, pc, reqVars, hooks, outVars, requestStartTime, resp, trips, hop,
                 pool, wr, rd, lastReused, elapsed, bodyErr>>

FireGetConn == Fire1("GetConn", "none", "getconn", Gap, {})

FireDNSStart == Fire1("DNSStart", "getconn", "dns", Gap, {})

FireDNSDone == Fire1("DNSDone", "dns", "dnsdone", IO, {"DNSDuration"})

FireConnectStart == Fire1("ConnectStart", "dnsdone", "dial", Gap, {})

FireConnectDone == Fire1("ConnectDone", "dial", "dialdone", IO, {"ConnectionDialDuration"})

\* A TLS handshake whatever the scheme of the round trip.
FireTLSHandshakeStartAnyScheme == Fire1("TLSHandshakeStart", "dialdone", "tls", Gap, {})

FireTLSHandshakeStart ==
  /\ hop = "https"
  /\ Fire1("TLSHandshakeStart", "dialdone", "tls", Gap, {})

FireTLSHandshakeDone == Fire1("TLSHandshakeDone", "tls", "tlsdone", IO, {"TLSDuration"})

\* GotConn for a connection the transport has just dialled.
FireGotConnNew ==
  /\ pc = "do"
  /\ \/ conn = "tlsdone"
     \/ conn = "dialdone" /\ hop = "http"
  /\ \E d \in Gap, g \in [1 .. 2 * Len(hooks) -> Gap] :
       /\ g[1] = 0
       /\ ticks' = ticks + Ticked(g) + (IF d > 0 THEN 1 ELSE 0)
       /\ ticks' <= MaxTicks
       /\ timings' = ComposeGotConn(timings, FALSE, now + d, g, 1)
       /\ now' = Reading(now + d, g, 2 * Len(hooks))
  /\ conn' = "got"
  /\ lastReused' = "new"
  /\ nwrites' = Count(nwrites, {"TotalConnectionDuration"})
  /\ UNCHANGED <<repVars, state, pc, reqVars, hooks, outVars, requestStartTime, resp, trips, hop,
                 pool, wr, rd, elapsed, bodyErr>>

\* GotConn for an idle connection of the pool: only requestStart is written, with one read.
FireGotConnReused ==
  /\ pc = "do"
  /\ conn = "getconn"
  /\ hop \in pool
  /\ \E d \in Gap, g \in [1 .. Len(hooks) -> Gap] :
       /\ g[1] = 0
       /\ ticks' = ticks + Ticked(g) + (IF d > 0 THEN 1 ELSE 0)
       /\ ticks' <= MaxTicks
       /\ timings' = ComposeGotConn(timings, TRUE, now + d,
                                    [i \in 1 .. 2 * Len(hooks) |->
                                       IF i % 2 = 0 THEN 0 ELSE g[(i + 1) \div 2]], 1)
       /\ now' = Reading(now + d, g, Len(hooks))
  /\ conn' = "got"
  /\ pool' = pool \ {hop}
  /\ lastReused' = "reused"
  /\ UNCHANGED <<repVars, state, pc, reqVars, hooks, outVars, requestStartTime, resp, trips, hop,
                 wr, rd, nwrites, elapsed, bodyErr>>

\* One statement of a two-statement hook that a goroutine of its own runs: statement
\* n + 1 of the invocation, where closure (n \div 2) + 1 runs its statement (n % 2) + 1.
\* The first read follows network I/O, the later ones follow the previous statement.
StepClock(n) ==
  IF n = 0 THEN {d \in IO : now + d <= Timeout}
           ELSE {d \in Gap : d = 0 \/ ticks < MaxTicks}

StepTicks(n, d) == IF n > 0 /\ d > 0 THEN ticks + 1 ELSE ticks

FireWroteRequest ==
  /\ pc \in {"do", "body"}
  /\ conn = "got"
  /\ wr < 2 * Len(hooks)
  /\ \E d \in StepClock(wr) :
       /\ now' = now + d
       /\ ticks' = StepTicks(wr, d)
       /\ timings' = WroteRequestHook(timings, (wr % 2) + 1,
                                      now + d + hooks[(wr \div 2) + 1])
  /\ wr' = wr + 1
  /\ nwrites' = IF wr % 2 = 0 THEN Count(nwrites, {"RequestWriteDuration"}) ELSE nwrites
  /\ UNCHANGED <<repVars, state, pc, reqVars, hooks, outVars, requestStartTime, resp, trips, hop,
                 conn, pool, rd, lastReused, elapsed, bodyErr>>

FireGotFirstResponseByte ==
  /\ pc = "do"
  /\ conn = "got"
  /\ rd < 2 * Len(hooks)
  /\ \E d \in StepClock(rd) :
       /\ now' = now + d
       /\ ticks' = StepTicks(rd, d)
       /\ timings' = GotFirstResponseByteHook(timings, (rd % 2) + 1,
                                              now + d + hooks[(rd \div 2) + 1])
  /\ rd' = rd + 1
  /\ nwrites' = IF rd % 2 = 0 THEN Count(nwrites, {"ResponseDelayDuration"}) ELSE nwrites
  /\ UNCHANGED <<repVars, state, pc, reqVars, hooks, outVars, requestStartTime, resp, trips, hop,
                 conn, pool, wr, lastReused, elapsed, bodyErr>>

\* The response of a round trip is a redirect and client.Do follows it: another round
\* trip under the same context, that is with the same hooks (trace.go:105-106).  The
\* connection of the round trip that ends goes back to the pool.
Redirect ==
  /\ pc = "do"
  /\ conn = "got"
  /\ rd = 2 * Len(hooks)
  /\ wr = 2 * Len(hooks)
  /\ trips < MaxRoundTrips
  /\ trips' = trips + 1
  /\ hop' \in Schemes
  /\ pool' = pool \cup {hop}
  /\ conn' = "none"
  /\ wr' = 0
  /\ rd' = 0
  /\ UNCHANGED <<repVars, state, pc, reqVars, hooks, timings, outVars, now, requestStartTime, resp,
                 ticks, lastReused, nwrites, elapsed, bodyErr>>

\* client.Do with a status check: a status other than 200 is an error of Execute.
DoReturnChecked ==
  /\ pc = "do"
  /\ conn = "got"
  /\ rd = 2 * Len(hooks)
  /\ \E s \in Statuses :
       /\ resp' = <<s>>
       /\ pc' = IF s = 200 THEN "body" ELSE "idle"
       /\ state' = IF s = 200 THEN state ELSE "Failed"
       /\ ret' = IF s = 200 THEN ret ELSE <<"unexpected status: ", s>>
  /\ UNCHANGED <<repVars, reqVars, hooks, timings, response, responseBody, stderr, now,
                 requestStartTime, trips, ticks, hop, conn, pool, wr, rd, lastReused, nwrites,
                 elapsed, bodyErr>>

\* client.Do returns a response, of whatever status (trace.go:106).
DoReturn ==
  /\ pc = "do"
  /\ conn = "got"
  /\ rd = 2 * Len(hooks)
  /\ \E s \in Statuses : resp' = <<s>>
  /\ pc' = "body"
  /\ UNCHANGED <<repVars, state, reqVars, hooks, timings, outVars, now, requestStartTime, trips,
                 ticks, hop, conn, pool, wr, rd, lastReused, nwrites, elapsed, bodyErr>>

\* fmt.Errorf("error sending request: %w", err)
WrapError(cause) == <<"error sending request: ", cause>>

\* A client that answers an error by sending the request again, and never returns it.
DoFailRetried ==
  /\ pc = "do"
  /\ trips' = 1
  /\ hop' = url
  /\ conn' = "none"
  /\ wr' = 0
  /\ rd' = 0
  /\ UNCHANGED <<repVars, state, pc, reqVars, hooks, timings, outVars, now, requestStartTime,
                 resp, ticks, pool, lastReused, nwrites, elapsed, bodyErr>>

\* client.Do returns an error, the client's timeout among them (trace.go:106-109).
DoFail ==
  /\ pc = "do"
  /\ \E cause \in Causes :
       /\ ret' = WrapError(cause)
       /\ elapsed' = IF cause = "timeout" THEN "do" ELSE "none"
  /\ state' = "Failed"
  /\ pc' = "idle"
  /\ UNCHANGED <<repVars, reqVars, hooks, timings, response, responseBody, stderr, now,
                 requestStartTime, resp, trips, ticks, hop, conn, pool, wr, rd, lastReused,
                 nwrites, bodyErr>>

\* fmt.Sprintf("Error reading response body: %v", err.Error())
ReadingBodyError(cause) == <<"Error reading response body: ", cause>>

\* The total counted from the moment the connection was acquired.
FinalizeFromConnection(tm, finishTime, rst) ==
  [tm EXCEPT !.ResponseReadDuration = finishTime - tm.responseStart,
             !.TotalRequestDuration = finishTime - tm.requestStart]

\* trace.go:123-125
Finalize(tm, finishTime, rst) ==
  [tm EXCEPT !.ResponseReadDuration = finishTime - tm.responseStart,
             !.TotalRequestDuration = finishTime - rst]

\* Execute with an error of ioutil.ReadAll returned like an error of client.Do.
ReadBodyAbort(cause, finishTime) ==
  /\ pc = "body"
  /\ wr = 2 * Len(hooks)
  /\ responseBody' = IF cause = Nil THEN BodyText ELSE responseBody
  /\ stderr' = stderr
  /\ response' = IF cause = Nil THEN resp ELSE response
  /\ now' = finishTime
  /\ timings' = IF cause = Nil THEN Finalize(timings, finishTime, requestStartTime)
                ELSE timings
  /\ nwrites' = IF cause = Nil
                THEN Count(nwrites, {"ResponseReadDuration", "TotalRequestDuration"})
                ELSE nwrites
  /\ elapsed' = IF cause = "timeout" THEN "body" ELSE "none"
  /\ bodyErr' = cause
  /\ ret' = IF cause = Nil THEN NoError ELSE WrapError(cause)
  /\ state' = IF cause = Nil THEN "Completed" ELSE "Failed"
  /\ pc' = "idle"
  /\ pool' = IF cause = Nil THEN pool \cup {hop} ELSE pool
  /\ UNCHANGED <<repVars, reqVars, hooks, requestStartTime, resp, trips, ticks, hop, conn, wr, rd,
                 lastReused>>

\* Execute after client.Do has returned a response (trace.go:111-127).  cause is Nil when
\* ioutil.ReadAll succeeds; the client's timer keeps running while the body is read.  The
\* hooks the transport fires after Execute has returned are left out: WroteRequest has
\* run when the body has been read.
ReadBody(cause, finishTime) ==
  /\ pc = "body"
  /\ wr = 2 * Len(hooks)
  /\ responseBody' = IF cause = Nil THEN BodyText ELSE ReadingBodyError(cause)
  /\ stderr' = IF cause = Nil THEN stderr
               ELSE Append(stderr, ReadingBodyError(cause) \o <<"\n">>)
  /\ response' = resp
  /\ now' = finishTime
  /\ timings' = Finalize(timings, finishTime, requestStartTime)
  /\ nwrites' = Count(nwrites, {"ResponseReadDuration", "TotalRequestDuration"})
  /\ elapsed' = IF cause = "timeout" THEN "body" ELSE "none"
  /\ bodyErr' = cause
  /\ ret' = NoError
  /\ state' = "Completed"
  /\ pc' = "idle"
  /\ pool' = IF cause = Nil THEN pool \cup {hop} ELSE pool
  /\ UNCHANGED <<repVars, reqVars, hooks, requestStartTime, resp, trips, ticks, hop, conn, wr, rd,
                 lastReused>>

ExecuteFinish ==
  \/ \E d \in IO : now + d <= Timeout /\ ReadBody(Nil, now + d)
  \/ \E d \in IO : now + d <= Timeout /\ ReadBody("reset", now + d)
  \/ ReadBody("timeout", Max(now, Timeout))

\* ---- the accessors (trace.go:130-140) ----
GetResponse == response

GetResponseBody == responseBody

GetTimings == timings

Next ==
  \/ ExecuteStart
  \/ FireGetConn
  \/ FireDNSStart
  \/ FireDNSDone
  \/ FireConnectStart
  \/ FireConnectDone
  \/ FireTLSHandshakeStart
  \/ FireTLSHandshakeDone
  \/ FireGotConnNew
  \/ FireGotConnReused
  \/ FireWroteRequest
  \/ FireGotFirstResponseByte
  \/ Redirect
  \/ DoReturn
  \/ DoFail
  \/ ExecuteFinish

Spec == Init /\ [][Next]_vars

\* The goroutines of the transport and Execute's own are scheduled, and the client's timer
\* fires: a step that can be taken is taken in the end.
SpecLive == Init /\ [][Next]_vars /\ WF_vars(Next)

\* SetHeaders alone, on a request that may carry headers already.
InitHeaders ==
  \E h \in InitialHeaders :
    /\ header = h
    /\ state = "Created"
    /\ pc = "idle"
    /\ url \in Schemes
    /\ hooks = <<>>
    /\ timings = ZeroTimings
    /\ response = NoResponse
    /\ responseBody = EmptyString
    /\ stderr = <<>>
    /\ ret = <<Nil>>
    /\ now = 0
    /\ requestStartTime = 0
    /\ resp = NoResponse
    /\ trips = 0
    /\ ticks = 0
    /\ hop = url
    /\ conn = "none"
    /\ pool = {}
    /\ wr = 0
    /\ rd = 0
    /\ lastReused = "none"
    /\ nwrites = [f \in Exposed |-> 0]
    /\ elapsed = "none"
    /\ bodyErr = Nil
    /\ lastSet = <<>>
    /\ data = Nil
    /\ output = EmptyString
    /\ built = "no"
    /\ stdout = <<>>

NextHeaders == \E raw \in RawInputs : SetHeaders(raw)

SpecHeaders == InitHeaders /\ [][NextHeaders]_vars

\* ---- package report (report/report.go) ----
\* Calls of Print the model follows.
MaxPrints == 1

\* The header names of the model, in the sorted order in which the template's range over a
\* map visits the keys.
ReportHeaderNames == <<"Content-Type", "Server">>

\* http.Header values: each name has a sequence of values, a value is the sequence of its
\* characters.
ReportHeaders ==
  {[k \in S |-> IF k = "Server" THEN << <<"g", "o">> >> ELSE << <<"a">>, <<"b">> >>] :
     S \in SUBSET {"Content-Type", "Server"}}

\* Durations in nanoseconds, as time.Duration counts them.
TimingSamples ==
  { ZeroTimings,
    [ZeroTimings EXCEPT !.DNSDuration = 1234567, !.TotalConnectionDuration = 1995000,
                        !.ResponseReadDuration = 4999, !.TotalRequestDuration = 828990000] }

\* reportData (report.go:58-64); a nil *http.Response is <<>>, a response is <<r>>.
ReportData ==
  [Request : [Method : {"GET"}, Host : {"example.com"}, Path : {"", "/p"},
              Proto : {"HTTP/1.1"}, Header : ReportHeaders],
   Response : {<<>>} \cup {<<r>> : r \in [Status : {"200 OK", "404 Not Found"},
                                           Header : ReportHeaders]},
   ResponseBody : {EmptyString, BodyText},
   Timings : TimingSamples,
   Presentation : [SuppressHeaders : BOOLEAN, SuppressBody : BOOLEAN]]

\* strings.Join(values, "")
RECURSIVE Join(_)
Join(values) == IF values = <<>> THEN <<>> ELSE Head(values) \o Join(Tail(values))

SortedKeys(h) == SelectSeq(ReportHeaderNames, LAMBDA k : k \in DOMAIN h)

\* durationMillis (report.go:46-49): "%9.2fms" of the milliseconds, that is the hundredths
\* of a millisecond nearest to the duration; the padding to nine characters is left out.
DurationMillis(d) ==
  LET a == IF d >= 0 THEN d ELSE -d
      hundredths == (a + 5000) \div 10000
  IN <<IF d < 0 /\ hundredths > 0 THEN "-" ELSE "", hundredths \div 100, ".",
       (hundredths % 100) \div 10, hundredths % 10, "ms">>

\* The output is the sequence of its lines, a line the sequence of its pieces.
RequestBlock(d) ==
  << <<"> ", d.Request.Method, " ", d.Request.Host, d.Request.Path, " ", d.Request.Proto>> >>
    \o [i \in 1 .. Len(SortedKeys(d.Request.Header)) |->
          LET k == SortedKeys(d.Request.Header)[i]
          IN <<"> ", k, ": ", Join(d.Request.Header[k])>>]
    \o << <<">">> >>

StatusLine(d) == << <<"< ", d.Response[1].Status>> >>

\* report.go:21-25
ResponseHeaderLines(d) ==
  IF d.Presentation.SuppressHeaders THEN <<>>
  ELSE [i \in 1 .. Len(SortedKeys(d.Response[1].Header)) |->
          LET k == SortedKeys(d.Response[1].Header)[i]
          IN <<"< ", k, ": ", Join(d.Response[1].Header[k])>>]

\* The body left out when either flag is set.
BodyLinesUnlessHeaders(d) ==
  IF d.Presentation.SuppressBody \/ d.Presentation.SuppressHeaders THEN <<>>
  ELSE <<d.ResponseBody>>

\* report.go:26-28
BodyLines(d) == IF d.Presentation.SuppressBody THEN <<>> ELSE <<d.ResponseBody>>

\* report.go:29-42
TraceSection(d) ==
  << <<>>,
     <<"Trace">>,
     <<"  Request">>,
     <<"    Connection">>,
     <<"      DNS Resolution:  ", DurationMillis(d.Timings.DNSDuration)>>,
     <<"      Connecting:      ", DurationMillis(d.Timings.ConnectionDialDuration)>>,
     <<"      TLS handshake:   ", DurationMillis(d.Timings.TLSDuration)>>,
     <<"    Connection total:  ", DurationMillis(d.Timings.TotalConnectionDuration)>>,
     <<>>,
     <<"    Request write:     ", DurationMillis(d.Timings.RequestWriteDuration)>>,
     <<"    Response delay:    ", DurationMillis(d.Timings.ResponseDelayDuration)>>,
     <<"    Response read:     ", DurationMillis(d.Timings.ResponseReadDuration)>>,
     <<>>,
     <<"  Request total:       ", DurationMillis(d.Timings.TotalRequestDuration)>> >>

\* outputTmpl executed on the data (report.go:15-43)
Render(d) ==
  RequestBlock(d) \o StatusLine(d) \o ResponseHeaderLines(d) \o BodyLines(d)
    \o TraceSection(d)

\* The state after report.New (report.go:71-83), on a Trace that is not executed.
InitReport ==
  /\ state = "Created"
  /\ pc = "idle"
  /\ header = <<>>
  /\ url \in Schemes
  /\ hooks = <<>>
  /\ timings = ZeroTimings
  /\ response = NoResponse
  /\ responseBody = EmptyString
  /\ stderr = <<>>
  /\ ret = <<Nil>>
  /\ now = 0
  /\ requestStartTime = 0
  /\ resp = NoResponse
  /\ trips = 0
  /\ ticks = 0
  /\ hop = url
  /\ conn = "none"
  /\ pool = {}
  /\ wr = 0
  /\ rd = 0
  /\ lastReused = "none"
  /\ nwrites = [f \in Exposed |-> 0]
  /\ elapsed = "none"
  /\ bodyErr = Nil
  /\ lastSet = <<>>
  /\ data \in ReportData
  /\ output = EmptyString
  /\ built = "no"
  /\ stdout = <<>>

\* Report.Build (report.go:85-96): the template fails on a nil Response, and then the
\* output stays as it was.
Build ==
  /\ built' = IF data.Response = <<>> THEN "error" ELSE "ok"
  /\ output' = IF data.Response = <<>> THEN output ELSE Render(data)
  /\ UNCHANGED <<traceVars, data, stdout>>

\* Report.Print (report.go:98-105) on a writer that takes the output.
ReportPrint ==
  /\ Len(stdout) < MaxPrints
  /\ stdout' = Append(stdout, output)
  /\ UNCHANGED <<traceVars, data, output, built>>

NextReport ==
  \/ Build
  \/ ReportPrint

SpecReport == InitReport /\ [][NextReport]_vars

\* ---- the properties ----
Abs(x) == IF x >= 0 THEN x ELSE -x

\* Execute has returned nil.
Succeeded == pc = "idle" /\ state = "Completed"

\* The four phases that make up the request.
PhaseSum(tm) ==
  tm.TotalConnectionDuration + tm.RequestWriteDuration + tm.ResponseDelayDuration
    + tm.ResponseReadDuration

\* The reads of one round trip that no phase covers: GetConn's, and the second read of
\* GotConn, of WroteRequest and of GotFirstResponseByte.
Tolerance == 4 * Resolution

\* C1: after any Execute that returns success, TotalConnectionDuration +
\* RequestWriteDuration + ResponseDelayDuration + ResponseReadDuration equals
\* TotalRequestDuration up to timer resolution, whatever the hooks the transport fired.
C1_PhasesSumToTotal ==
  Succeeded =>
    Abs(GetTimings.TotalRequestDuration - PhaseSum(GetTimings)) <= Tolerance

\* C2: after any Execute that returns success, DNSDuration + ConnectionDialDuration +
\* TLSDuration is at most TotalConnectionDuration, and so is each of the three.
C2_SubPhasesWithinConnection ==
  Succeeded =>
    /\ GetTimings.DNSDuration + GetTimings.ConnectionDialDuration + GetTimings.TLSDuration
         <= GetTimings.TotalConnectionDuration
    /\ GetTimings.DNSDuration <= GetTimings.TotalConnectionDuration
    /\ GetTimings.ConnectionDialDuration <= GetTimings.TotalConnectionDuration
    /\ GetTimings.TLSDuration <= GetTimings.TotalConnectionDuration

\* C3: when GotConn reported a reused connection, the record exposed after Execute has
\* TotalConnectionDuration, DNSDuration, ConnectionDialDuration and TLSDuration all zero.
C3_ReusedConnectionIsZero ==
  (Succeeded /\ lastReused = "reused") =>
    /\ GetTimings.TotalConnectionDuration = 0
    /\ GetTimings.DNSDuration = 0
    /\ GetTimings.ConnectionDialDuration = 0
    /\ GetTimings.TLSDuration = 0

\* C4: if the client's timeout elapses before the exchange has completed, while connecting,
\* while waiting for the response or while reading the body, Execute returns an error.
C4_TimeoutIsAnError ==
  (pc = "idle" /\ elapsed # "none") => (ret # NoError /\ state = "Failed")

\* C5: whenever Execute returns an error, GetResponse returns nil, GetResponseBody the
\* empty string, and every exposed duration of GetTimings is zero.
C5_FailureExposesNothing ==
  (pc = "idle" /\ state = "Failed") =>
    /\ GetResponse = NoResponse
    /\ GetResponseBody = EmptyString
    /\ \A f \in Exposed : GetTimings[f] = 0

\* C6: if client.Do succeeds and reading the body fails, Execute returns nil, the response
\* is stored, the body is the placeholder message, the message went to os.Stderr, and
\* ResponseReadDuration and TotalRequestDuration are those of the finish time.
C6_BodyErrorIsNotFatal ==
  (pc = "idle" /\ bodyErr # Nil) =>
    /\ ret = NoError
    /\ state = "Completed"
    /\ GetResponse = resp
    /\ GetResponse # NoResponse
    /\ GetResponseBody = <<"Error reading response body: ", bodyErr>>
    /\ stderr # <<>>
    /\ stderr[Len(stderr)] = <<"Error reading response body: ", bodyErr, "\n">>
    /\ GetTimings.ResponseReadDuration = now - GetTimings.responseStart
    /\ GetTimings.TotalRequestDuration = now - requestStartTime
    /\ nwrites["ResponseReadDuration"] = 1
    /\ nwrites["TotalRequestDuration"] = 1

\* The body read failed after a wait, on a response of status 404.
C6_Witness ==
  /\ pc = "idle"
  /\ bodyErr = "reset"
  /\ response = <<404>>
  /\ timings.ResponseReadDuration = Wait

\* C7: once a Trace is Completed or Failed it is never Executing again, and its response,
\* body and timing record no longer change.
C7_TerminalIsFinal ==
  [][(state = "Completed" \/ state = "Failed") =>
       (state' = state /\ response' = response /\ responseBody' = responseBody
          /\ timings' = timings)]_vars

\* C8: during one Execute each exposed field of the record is written once at most, also
\* when client.Do makes more than one round trip.
C8_EachFieldWrittenOnce == \A f \in Exposed : nwrites[f] <= 1

\* What a "Name: Value" entry means: the name is what stands before the first colon, the
\* value all that follows it, each without the spaces around it.
HasColon(e) == \E i \in 1 .. Len(e) : e[i] = ":"

ColonAt(e) == CHOOSE i \in 1 .. Len(e) : e[i] = ":" /\ \A j \in 1 .. i - 1 : e[j] # ":"

Stripped(t, s) ==
  \E a, b \in 0 .. Len(s) :
    /\ a + b <= Len(s)
    /\ t = SubSeq(s, a + 1, Len(s) - b)
    /\ \A i \in 1 .. a : s[i] = " "
    /\ \A i \in Len(s) - b + 1 .. Len(s) : s[i] = " "
    /\ t # <<>> => (t[1] # " " /\ t[Len(t)] # " ")

StripOf(s) ==
  CHOOSE t \in {SubSeq(s, a, b) : a \in 1 .. Len(s) + 1, b \in 0 .. Len(s)} : Stripped(t, s)

NameOf(e) == StripOf(SubSeq(e, 1, ColonAt(e) - 1))

ValueOf(e) == StripOf(SubSeq(e, ColonAt(e) + 1, Len(e)))

SameName(e, f) == CanonicalMIMEHeaderKey(NameOf(e)) = CanonicalMIMEHeaderKey(NameOf(f))

\* The last entry of raw that names the header entry i names.
LastFor(raw, i) ==
  CHOOSE j \in 1 .. Len(raw) :
    /\ SameName(raw[j], raw[i])
    /\ \A m \in j + 1 .. Len(raw) : ~SameName(raw[m], raw[i])

\* C9: after SetHeaders(raw) with every entry well formed, the request carries for each
\* entry's name exactly one value: the value of the last entry of that name, cut at the
\* first colon and without the spaces around it, whatever the header held before.
C9_SetHeadersOverwrites ==
  (lastSet # <<>> /\ state # "Panicked") =>
    LET raw == lastSet[1]
    IN \A i \in 1 .. Len(raw) :
         LET k == CanonicalMIMEHeaderKey(NameOf(raw[i]))
         IN /\ k \in DOMAIN header
            /\ header[k] = <<ValueOf(raw[LastFor(raw, i)])>>
            /\ HeaderGet(header, NameOf(raw[i])) = ValueOf(raw[LastFor(raw, i)])

\* " X : a " and then "x:b" were set on a request that carried two values for X, and
\* "X-y:a:b" on one that carried none.
C9_Witness ==
  /\ lastSet # <<>>
  /\ state # "Panicked"
  /\ \/ /\ lastSet[1] = << <<" ", "X", " ", ":", " ", "a", " ">>, <<"x", ":", "b">> >>
        /\ lastSet[2] = [k \in {<<"X">>} |-> <<<<"o">>, <<"p">>>>]
        /\ header[<<"X">>] = << <<"b">> >>
     \/ /\ lastSet[1] = << <<"X", "-", "y", ":", "a", ":", "b">> >>
        /\ lastSet[2] = <<>>
        /\ header[<<"X", "-", "Y">>] = << <<"a", ":", "b">> >>

\* C10: SetHeaders given an entry without a colon does not crash, and leaves the
\* request's headers as they were before the call.
C10_MalformedEntryIsRefused ==
  (lastSet # <<>> /\ \E i \in 1 .. Len(lastSet[1]) : ~HasColon(lastSet[1][i])) =>
    /\ state # "Panicked"
    /\ header = lastSet[2]

\* C11: a response of whatever status completes the exchange: once client.Do has returned a
\* response, 404 like 200, Execute returns nil, GetResponse carries that response and its
\* status, the body is captured and the timing record is finalized.
C11_StatusIsNotAnError ==
  (pc = "idle" /\ resp # NoResponse) =>
    /\ ret = NoError
    /\ state = "Completed"
    /\ GetResponse = resp
    /\ GetResponse[1] \in Statuses
    /\ bodyErr = Nil => GetResponseBody = BodyText
    /\ GetTimings.ResponseReadDuration = now - GetTimings.responseStart
    /\ GetTimings.TotalRequestDuration = now - requestStartTime
    /\ nwrites["ResponseReadDuration"] = 1
    /\ nwrites["TotalRequestDuration"] = 1

\* Execute has returned after a response of status 404 whose body it read.
C11_Witness ==
  /\ pc = "idle"
  /\ GetResponse = <<404>>
  /\ bodyErr = Nil
  /\ GetResponseBody = BodyText
  /\ GetTimings.TotalRequestDuration > 0

\* No Execute of the Trace has returned nil.
NeverSucceeded == Len(hooks) <= 1 /\ state # "Completed"

\* C12: an accessor called before any Execute has completed successfully returns the zero
\* value: GetResponse nil, GetResponseBody the empty string, GetTimings a record with no
\* duration set.
C12_AccessorsAreZeroBeforeSuccess ==
  (pc = "idle" /\ NeverSucceeded) =>
    /\ GetResponse = NoResponse
    /\ GetResponseBody = EmptyString
    /\ \A f \in Exposed : GetTimings[f] = 0

C15_DelayAndWriteArithmetic ==
  Succeeded =>
    /\ Abs(GetTimings.ResponseDelayDuration
             - (GetTimings.responseStart - GetTimings.delayStart)) <= 2 * Resolution
    /\ Abs(GetTimings.RequestWriteDuration
             - (GetTimings.delayStart - GetTimings.requestStart)) <= 2 * Resolution

\* C16: every exposed duration is non-negative in every reachable state.
C16_DurationsAreNonNegative == \A f \in Exposed : GetTimings[f] >= 0

\* C18: no two observers of one exchange run at the same time: WroteRequest and
\* GotFirstResponseByte are never both between their first and their last statement.
C18_ObserversNeverOverlap ==
  ~(/\ 0 < wr /\ wr < 2 * Len(hooks)
    /\ 0 < rd /\ rd < 2 * Len(hooks))

\* The writers of the timing record: the ten hooks and the finalization of Execute.
Observers ==
  {"GetConn", "GotConn", "DNSStart", "DNSDone", "ConnectStart", "ConnectDone",
   "TLSHandshakeStart", "TLSHandshakeDone", "WroteRequest", "GotFirstResponseByte",
   "Finalize"}

\* The record after observer o has run on a record p.
After(o, p) ==
  CASE o = "GotConn" -> GotConnHook(p, FALSE, 5, 5)
    [] o = "WroteRequest" -> WroteRequestHook(WroteRequestHook(p, 1, 5), 2, 5)
    [] o = "GotFirstResponseByte" ->
         GotFirstResponseByteHook(GotFirstResponseByteHook(p, 1, 5), 2, 5)
    [] o = "Finalize" -> Finalize(p, 5, 0)
    [] OTHER -> Call1(o, p, 5)

\* The fields each observer assigns: those that differ after it has run on a record that
\* holds -1 everywhere.
WriteSet ==
  LET p == [f \in Fields |-> -1]
  IN [o \in Observers |-> {f \in Fields : After(o, p)[f] # -1}]

\* The hook that takes the connection to stage c.
StageHook(c) ==
  CASE c = "getconn" -> "GetConn"
    [] c = "dns" -> "DNSStart"
    [] c = "dnsdone" -> "DNSDone"
    [] c = "dial" -> "ConnectStart"
    [] c = "dialdone" -> "ConnectDone"
    [] c = "tls" -> "TLSHandshakeStart"
    [] c = "tlsdone" -> "TLSHandshakeDone"
    [] c = "got" -> "GotConn"
    [] OTHER -> "none"

\* C19: the write sets of the observers and of Execute's finalization are pairwise
\* disjoint and cover the record, so that each field has exactly one writer, and every
\* step changes no field outside the write set of the observer that runs in it.
C19_WriteSetsAreDisjoint ==
  [][/\ \A o1, o2 \in Observers : o1 # o2 => WriteSet[o1] \cap WriteSet[o2] = {}
     /\ UNION {WriteSet[o] : o \in Observers} = Fields
     /\ LET acting == IF conn' # conn THEN StageHook(conn')
                      ELSE IF wr' = wr + 1 THEN "WroteRequest"
                      ELSE IF rd' = rd + 1 THEN "GotFirstResponseByte"
                      ELSE IF pc = "body" /\ pc' = "idle" THEN "Finalize"
                      ELSE "none"
        IN \A f \in Fields :
             timings'[f] # timings[f] => (acting \in Observers /\ f \in WriteSet[acting])]_vars

\* Execute has returned after an https exchange in which every exposed field was written.
C19_Witness ==
  /\ Succeeded
  /\ url = "https"
  /\ \A f \in Exposed : nwrites[f] >= 1
  /\ GetTimings.TLSDuration = Wait
  /\ GetTimings.TotalRequestDuration = Timeout

\* C20: New leaves the request as it was given and the Trace without response, body text
\* and timings; SetHeaders leaves the request's URL, every header that none of its entries
\* names, the response, the body text and the timing record unchanged.
C20_SetHeadersFrame ==
  /\ header \in InitialHeaders
  /\ GetResponse = NoResponse
  /\ GetResponseBody = EmptyString
  /\ GetTimings = ZeroTimings
  /\ [][/\ url' = url
        /\ response' = response
        /\ responseBody' = responseBody
        /\ timings' = timings
        /\ lastSet' # <<>> /\ lastSet'[2] = header
        /\ LET raw == lastSet'[1]
               named == {CanonicalMIMEHeaderKey(NameOf(raw[i])) :
                           i \in {j \in 1 .. Len(raw) : HasColon(raw[j])}}
           IN \A k \in DOMAIN header \ named :
                k \in DOMAIN header' /\ header'[k] = header[k]]_vars

\* "Y:" was set on a request that carried two values for X, which it still carries.
C20_Witness ==
  /\ lastSet # <<>>
  /\ lastSet[1] = << <<"Y", ":">> >>
  /\ lastSet[2] = [k \in {<<"X">>} |-> <<<<"o">>, <<"p">>>>]
  /\ header = [k \in {<<"X">>, <<"Y">>} |->
                 IF k = <<"X">> THEN <<<<"o">>, <<"p">>>> ELSE <<EmptyString>>]

\* The label of each duration's line in the trace section.
DurationLabel ==
  [f \in Exposed |->
     CASE f = "DNSDuration" -> "      DNS Resolution:  "
       [] f = "ConnectionDialDuration" -> "      Connecting:      "
       [] f = "TLSDuration" -> "      TLS handshake:   "
       [] f = "TotalConnectionDuration" -> "    Connection total:  "
       [] f = "RequestWriteDuration" -> "    Request write:     "
       [] f = "ResponseDelayDuration" -> "    Response delay:    "
       [] f = "ResponseReadDuration" -> "    Response read:     "
       [] f = "TotalRequestDuration" -> "  Request total:       "]

\* C14: a report that was built holds the request block, the status line and, in its last
\* fourteen lines, the trace section with a line for each of the eight durations; between
\* the status line and the trace section stand a line for each response header if and
\* only if SuppressHeaders is false, and then the body if and only if SuppressBody is
\* false, each flag whatever the other is.
C14_ReportSections ==
  built = "ok" =>
    LET nreq == Cardinality(DOMAIN data.Request.Header)
        nres == Cardinality(DOMAIN data.Response[1].Header)
        h == IF data.Presentation.SuppressHeaders THEN 0 ELSE nres
        b == IF data.Presentation.SuppressBody THEN 0 ELSE 1
        n == Len(output)
    IN /\ n = (nreq + 2) + 1 + h + b + 14
       /\ output[1] = <<"> ", data.Request.Method, " ", data.Request.Host,
                        data.Request.Path, " ", data.Request.Proto>>
       /\ \A k \in DOMAIN data.Request.Header :
            \E i \in 2 .. nreq + 1 : output[i][1] = "> " /\ output[i][2] = k
       /\ output[nreq + 2] = <<">">>
       /\ output[nreq + 3] = <<"< ", data.Response[1].Status>>
       /\ \A i \in nreq + 4 .. nreq + 3 + h :
            /\ output[i][1] = "< "
            /\ output[i][2] \in DOMAIN data.Response[1].Header
            /\ output[i][4] = Join(data.Response[1].Header[output[i][2]])
       /\ h > 0 =>
            \A k \in DOMAIN data.Response[1].Header :
              \E i \in nreq + 4 .. nreq + 3 + h : output[i][2] = k
       /\ b = 1 => output[n - 14] = data.ResponseBody
       /\ output[n - 12] = <<"Trace">>
       /\ \A f \in Exposed :
            \E i \in n - 13 .. n :
              output[i] = <<DurationLabel[f], DurationMillis(data.Timings[f])>>

\* A report was built with the headers suppressed and the body not, of a response with
\* two headers and a body.
C14_Witness ==
  /\ built = "ok"
  /\ data.Presentation.SuppressHeaders
  /\ ~data.Presentation.SuppressBody
  /\ DOMAIN data.Response[1].Header = {"Content-Type", "Server"}
  /\ data.ResponseBody = BodyText
  /\ data.Timings.DNSDuration = 1234567
  /\ Len(output) = Cardinality(DOMAIN data.Request.Header) + 18

\* C17: with a client whose Timeout is set, every Execute that has started returns: a
\* Trace that is Executing is Completed or Failed in the end.
C17_ExecuteTerminates == (state = "Executing") ~> (state = "Completed" \/ state = "Failed")

\* Execute has returned after the client's timeout ended the body read of its second
\* round trip.
C17_Witness ==
  /\ pc = "idle"
  /\ state = "Completed"
  /\ trips = MaxRoundTrips
  /\ elapsed = "body"
  /\ now = Timeout

====
